---- MODULE Spec2Model ----
(***************************************************************************)
(* A model of three parts of the toolchain manager:                        *)
(*   - serial/catalog.rs : the serialized catalog and its conversion to    *)
(*     and from the in-memory catalog (into_catalog / to_serial);          *)
(*   - shim.rs           : creation and deletion of shims;                 *)
(*   - volta-fail/lib.rs : VoltaError, From<T: VoltaFail>, with_context.   *)
(* Strings that the code parses or renders are sequences of one-character  *)
(* strings, so that parsing and rendering are computed, not assumed.       *)
(***************************************************************************)
EXTENDS Integers, Sequences, FiniteSets, TLC

VARIABLES
    \* serial/catalog.rs
    input,      \* the serialized catalog first read (history: never changes)
    serial,     \* the serialized catalog (serial::Catalog.node) at hand
    catalog,    \* the last Result of into_catalog, or None before any parse
    prev,       \* the Result of the parse before the last one (history)
    cpc,        \* which form is the newest: "serial" or "memory", or "failed"
    \* shim.rs
    fs,         \* the shim directory: shim name -> kind of the entry at its path
    fs0,        \* the entry at the contended path when the processes start (history)
    last,       \* the last call made: operation, name, environment, result, directory before
    before,     \* the call made just before it, when on the same name
    pc,         \* of each concurrent process: where it is in its call
    applied,    \* the operation whose file-system call was applied last
    clean,      \* no call has met a path failure or a file-system fault
    \* volta-fail/lib.rs
    result,     \* a Result<T, E> handed up by a fallible operation
    arg,        \* the Result the last with_context was applied to (history)
    ctx,        \* the closure the last with_context was given (history)
    fop         \* the last operation on `result`

catalogVars == <<input, serial, catalog, prev, cpc>>

shimVars == <<fs, fs0, last, before, pc, applied, clean>>

failVars == <<result, arg, ctx, fop>>

vars == <<catalogVars, shimVars, failVars>>

\* Option<T>: None is the empty sequence, Some(x) the sequence of x alone
None == <<>>

Some(x) == <<x>>

Unwrap(o) == o[1]

(***************************************************************************)
(* Bounds.                                                                 *)
(***************************************************************************)
MaxVersions == 3     \* longest `versions` list of a serialized catalog

MaxPreexisting == 1  \* entries already in the shim directory when the calls start

NumProcs == 2        \* invocations running concurrently

MaxContext == 2      \* with_context applications stacked on one error

(***************************************************************************)
(* Characters and decimal numbers.                                         *)
(***************************************************************************)
Digits == <<"0", "1", "2", "3", "4", "5", "6", "7", "8", "9">>

\* byte order of the characters an identifier may hold ('-' < digits < letters)
Alphabet == <<"-">> \o Digits \o <<"a", "b">>

IsDigit(c) == \E i \in 1..Len(Digits) : Digits[i] = c

DigitVal(c) == (CHOOSE i \in 1..Len(Digits) : Digits[i] = c) - 1

IsIdentChar(c) == \E i \in 1..Len(Alphabet) : Alphabet[i] = c

CharOrd(c) == CHOOSE i \in 1..Len(Alphabet) : Alphabet[i] = c

AllDigits(s) == \A i \in 1..Len(s) : IsDigit(s[i])

RECURSIVE NumVal(_)
NumVal(s) ==
    IF s = <<>> THEN 0
    ELSE 10 * NumVal(SubSeq(s, 1, Len(s) - 1)) + DigitVal(s[Len(s)])

RECURSIVE NumStr(_)
NumStr(n) ==
    IF n < 10 THEN <<Digits[n + 1]>>
    ELSE NumStr(n \div 10) \o <<Digits[(n % 10) + 1]>>

\* index of the first occurrence of c in s, or 0
IndexOf(s, c) ==
    IF \E i \in 1..Len(s) : s[i] = c
    THEN CHOOSE i \in 1..Len(s) : s[i] = c /\ \A j \in 1..(i - 1) : s[j] # c
    ELSE 0

RECURSIVE Split(_, _)
Split(s, c) ==
    LET i == IndexOf(s, c) IN
    IF i = 0 THEN <<s>>
    ELSE <<SubSeq(s, 1, i - 1)>> \o Split(SubSeq(s, i + 1, Len(s)), c)

RECURSIVE Join(_, _)
Join(parts, c) ==
    IF Len(parts) = 0 THEN <<>>
    ELSE IF Len(parts) = 1 THEN parts[1]
    ELSE parts[1] \o <<c>> \o Join(Tail(parts), c)

(***************************************************************************)
(* semver::Version (the external crate the catalog parses with):           *)
(* major.minor.patch with an optional pre-release "-id.id...".             *)
(***************************************************************************)
\* a numeric field: digits, no leading zero
IsNumeric(s) == Len(s) > 0 /\ AllDigits(s) /\ (Len(s) > 1 => s[1] # "0")

IsIdentifier(s) ==
    /\ Len(s) > 0
    /\ \A i \in 1..Len(s) : IsIdentChar(s[i])
    /\ (AllDigits(s) => IsNumeric(s))

Identifier(s) ==
    IF AllDigits(s) THEN [numeric |-> TRUE, n |-> NumVal(s)]
    ELSE [numeric |-> FALSE, s |-> s]

SemVerError == [ok |-> FALSE, err |-> "SemVerError"]

VersionParse(s) ==
    LET dash  == IndexOf(s, "-")
        core  == IF dash = 0 THEN s ELSE SubSeq(s, 1, dash - 1)
        tail  == IF dash = 0 THEN <<>> ELSE SubSeq(s, dash + 1, Len(s))
        nums  == Split(core, ".")
        ids   == IF dash = 0 THEN <<>> ELSE Split(tail, ".")
    IN  IF /\ Len(nums) = 3
           /\ \A i \in 1..3 : IsNumeric(nums[i])
           /\ \A i \in 1..Len(ids) : IsIdentifier(ids[i])
        THEN [ok |-> TRUE,
              val |-> [major |-> NumVal(nums[1]),
                       minor |-> NumVal(nums[2]),
                       patch |-> NumVal(nums[3]),
                       pre   |-> [i \in 1..Len(ids) |-> Identifier(ids[i])]]]
        ELSE SemVerError

IdentStr(id) == IF id.numeric THEN NumStr(id.n) ELSE id.s

VersionToString(v) ==
    Join(<<NumStr(v.major), NumStr(v.minor), NumStr(v.patch)>>, ".")
      \o (IF Len(v.pre) = 0 THEN <<>>
          ELSE <<"-">> \o Join([i \in 1..Len(v.pre) |-> IdentStr(v.pre[i])], "."))

\* byte-wise comparison of two strings: -1, 0 or 1
RECURSIVE StrCmp(_, _)
StrCmp(a, b) ==
    IF a = <<>> /\ b = <<>> THEN 0
    ELSE IF a = <<>> THEN -1
    ELSE IF b = <<>> THEN 1
    ELSE IF CharOrd(a[1]) < CharOrd(b[1]) THEN -1
    ELSE IF CharOrd(a[1]) > CharOrd(b[1]) THEN 1
    ELSE StrCmp(Tail(a), Tail(b))

IntCmp(a, b) == IF a < b THEN -1 ELSE IF a > b THEN 1 ELSE 0

\* Identifier: Numeric sorts before AlphaNumeric
IdentCmp(a, b) ==
    IF a.numeric /\ b.numeric THEN IntCmp(a.n, b.n)
    ELSE IF a.numeric THEN -1
    ELSE IF b.numeric THEN 1
    ELSE StrCmp(a.s, b.s)

RECURSIVE PreCmp(_, _)
PreCmp(a, b) ==
    IF a = <<>> /\ b = <<>> THEN 0
    ELSE IF a = <<>> THEN -1
    ELSE IF b = <<>> THEN 1
    ELSE IF IdentCmp(a[1], b[1]) # 0 THEN IdentCmp(a[1], b[1])
    ELSE PreCmp(Tail(a), Tail(b))

VersionCmp(a, b) ==
    IF IntCmp(a.major, b.major) # 0 THEN IntCmp(a.major, b.major)
    ELSE IF IntCmp(a.minor, b.minor) # 0 THEN IntCmp(a.minor, b.minor)
    ELSE IF IntCmp(a.patch, b.patch) # 0 THEN IntCmp(a.patch, b.patch)
    ELSE IF Len(a.pre) = 0 /\ Len(b.pre) = 0 THEN 0
    ELSE IF Len(a.pre) = 0 THEN 1
    ELSE IF Len(b.pre) = 0 THEN -1
    ELSE PreCmp(a.pre, b.pre)

(***************************************************************************)
(* BTreeSet<Version>: kept as the sequence of its ascending iteration.     *)
(***************************************************************************)
RECURSIVE BTreeInsert(_, _)
BTreeInsert(set, v) ==
    IF set = <<>> THEN <<v>>
    ELSE LET c == VersionCmp(v, set[1]) IN
         IF c = 0 THEN set
         ELSE IF c < 0 THEN <<v>> \o set
         ELSE <<set[1]>> \o BTreeInsert(Tail(set), v)

RECURSIVE BTreeAppendAll(_, _)
BTreeAppendAll(set, vs) ==
    IF vs = <<>> THEN set
    ELSE BTreeAppendAll(set \o <<vs[1]>>, Tail(vs))

RECURSIVE BTreeInsertAll(_, _)
BTreeInsertAll(set, vs) ==
    IF vs = <<>> THEN set
    ELSE BTreeInsertAll(BTreeInsert(set, vs[1]), Tail(vs))

BTreeSetFromIter(vs) == BTreeInsertAll(<<>>, vs)

(***************************************************************************)
(* serial/catalog.rs                                                       *)
(***************************************************************************)
\* impl Default for NodeCatalog
NodeCatalogDefault == [current |-> None, versions |-> <<>>]

\* the collect() of the parsed versions into Result<Vec<Version>, SemVerError>
CollectVersions(strs) ==
    IF \E i \in 1..Len(strs) : ~VersionParse(strs[i]).ok
    THEN SemVerError
    ELSE [ok |-> TRUE, val |-> [i \in 1..Len(strs) |-> VersionParse(strs[i]).val]]

\* the match on self.current: Some(v) => Some(Version::parse(v)?), None => None
ParseCurrent(current) ==
    IF current = None THEN [ok |-> TRUE, val |-> None]
    ELSE LET r == VersionParse(Unwrap(current)) IN
         IF r.ok THEN [ok |-> TRUE, val |-> Some(r.val)] ELSE SemVerError

\* a faulty collect: malformed entries are skipped
RECURSIVE SkipMalformed(_)
SkipMalformed(strs) ==
    IF strs = <<>> THEN <<>>
    ELSE (IF VersionParse(strs[1]).ok THEN <<VersionParse(strs[1]).val>> ELSE <<>>)
           \o SkipMalformed(Tail(strs))

into_node_catalog_skipping(self) ==
    LET current == ParseCurrent(self.current)
    IN  [ok |-> TRUE,
         val |-> [current  |-> IF current.ok THEN current.val ELSE None,
                  versions |-> BTreeSetFromIter(SkipMalformed(self.versions))]]

\* a faulty construction of the set: no ordering, no deduplication
into_node_catalog_unordered(self) ==
    LET current == ParseCurrent(self.current)
        versions == CollectVersions(self.versions)
    IN  IF ~current.ok THEN SemVerError
        ELSE IF ~versions.ok THEN SemVerError
        ELSE [ok |-> TRUE,
              val |-> [current  |-> current.val,
                       versions |-> BTreeAppendAll(<<>>, versions.val)]]

\* NodeCatalog::into_node_catalog
into_node_catalog(self) ==
    LET current == ParseCurrent(self.current)
        versions == CollectVersions(self.versions)
    IN  IF ~current.ok THEN SemVerError
        ELSE IF ~versions.ok THEN SemVerError
        ELSE [ok |-> TRUE,
              val |-> [current  |-> current.val,
                       versions |-> BTreeSetFromIter(versions.val)]]

\* Catalog::into_catalog
into_catalog(self) == into_node_catalog(self)

\* a faulty to_serial: `current` is not written
to_serial_without_current(self) ==
    [current  |-> None,
     versions |-> [i \in 1..Len(self.versions) |-> VersionToString(self.versions[i])]]

\* catalog::NodeCatalog::to_serial
node_to_serial(self) ==
    [current  |-> IF self.current = None THEN None
                  ELSE Some(VersionToString(Unwrap(self.current))),
     versions |-> [i \in 1..Len(self.versions) |-> VersionToString(self.versions[i])]]

\* catalog::Catalog::to_serial
to_serial(self) == node_to_serial(self)

(***************************************************************************)
(* volta-fail/lib.rs.  A failure value is a record with a `type`; a        *)
(* message is a sequence of text pieces.                                   *)
(***************************************************************************)
\* enum ExitCode
Success == 0
UnknownError == 1
InvalidArguments == 3
NoVersionMatch == 4
NetworkError == 5
EnvironmentError == 6
FileSystemError == 7
ConfigurationError == 8
NotYetImplemented == 9
ExecutionFailure == 126
ExecutableNotFound == 127

\* error::ErrorDetails, the enum of domain errors: the exit code of a variant
ErrorDetailsExitCode(d) ==
    IF d.variant = "SymlinkError" THEN FileSystemError
    ELSE IF d.variant = "VersionParseError" THEN NoVersionMatch
    ELSE ConfigurationError

\* error::ErrorDetails: the message of a variant
ErrorDetailsDisplay(d) == <<d.variant, ": ">> \o d.error

ErrorDetails(variant, error) ==
    [type |-> "ErrorDetails", variant |-> variant, error |-> error]

\* the two error types of the crate's documentation
UnexpectedEndOfString == [type |-> "UnexpectedEndOfString"]

InvalidRgbString(details) == [type |-> "InvalidRgbString", details |-> details]

\* std::io::Error: an OS error (no inner error) or a custom one (with an inner error)
IoError(kind, inner, os) == [type |-> "io::Error", kind |-> kind, inner |-> inner, os |-> os]

ParseIntError == [type |-> "ParseIntError", msg |-> <<"invalid digit found in string">>]

\* failure::Context<D>: the context and, when it wraps an error, that error
Context(context, failure) == [type |-> "Context", context |-> context, failure |-> failure]

\* fmt::Display of a failure
RECURSIVE Display(_)
Display(x) ==
    IF x.type = "VoltaError" THEN Display(x.error)
    ELSE IF x.type = "Context" THEN Display(x.context)
    ELSE IF x.type = "ErrorDetails" THEN ErrorDetailsDisplay(x)
    ELSE IF x.type = "UnexpectedEndOfString" THEN <<"unexpected end of string">>
    ELSE IF x.type = "InvalidRgbString" THEN <<"invalid RGB string: ">> \o x.details
    ELSE IF x.type = "io::Error" THEN (IF x.inner # None THEN Unwrap(x.inner) ELSE x.os)
    ELSE x.msg

\* VoltaFail::exit_code of a failure that implements VoltaFail
RECURSIVE VoltaFail_exit_code(_)
VoltaFail_exit_code(d) ==
    IF d.type = "Context" THEN VoltaFail_exit_code(d.context)
    ELSE IF d.type = "ErrorDetails" THEN ErrorDetailsExitCode(d)
    ELSE InvalidArguments

\* Fail::cause: of a VoltaError its underlying error, of a Context the error it wraps
Cause(x) ==
    IF x.type = "VoltaError" THEN Some(x.error)
    ELSE IF x.type = "Context" THEN x.failure
    ELSE None

\* the failures reached from x by following Fail::cause, x excluded
RECURSIVE Causes(_)
Causes(x) ==
    IF Cause(x) = None THEN <<>>
    ELSE <<Unwrap(Cause(x))>> \o Causes(Unwrap(Cause(x)))

\* a faulty From: every error exits with UnknownError
VoltaErrorFromUnknown(failure) ==
    [type |-> "VoltaError", error |-> failure, exit_code |-> UnknownError]

\* impl<T: VoltaFail> From<T> for VoltaError
VoltaErrorFrom(failure) ==
    [type |-> "VoltaError", error |-> failure, exit_code |-> VoltaFail_exit_code(failure)]

\* VoltaError::exit_code
exit_code(self) == self.exit_code

\* the closures handed to with_context
from_io_error(error) ==
    IF error.inner # None
    THEN ErrorDetails("SymlinkError", Unwrap(error.inner))
    ELSE ErrorDetails("SymlinkError", Display(error))

ApplyContext(f, e) ==
    IF f = "from_io_error" THEN from_io_error(e)
    ELSE IF f = "InvalidRgbString::new" THEN InvalidRgbString(Display(e))
    ELSE UnexpectedEndOfString

\* a faulty with_context: the lower-layer error is dropped
with_context_dropping_cause(self, f) ==
    VoltaErrorFrom(Context(ApplyContext(f, self), None))

\* FailExt::with_context
with_context(self, f) ==
    LET display == ApplyContext(f, self)
        context == Context(display, Some(self))
    IN  VoltaErrorFrom(context)

\* ResultExt::with_context
result_with_context(self, f) ==
    IF self.ok THEN self ELSE [ok |-> FALSE, err |-> with_context(self.err, f)]

\* what a caller may store through the reference downcast_mut::<T> hands out:
\* another value of the type T of the underlying error
SameTypeValues(x) ==
    IF x.type = "ErrorDetails"
    THEN {ErrorDetails(v, x.error) : v \in {"SymlinkError", "VersionParseError"}}
    ELSE IF x.type = "Context"
    THEN IF x.context.type = "ErrorDetails"
         THEN {Context(ErrorDetails(v, x.context.error), x.failure) :
                  v \in {"SymlinkError", "VersionParseError"}}
         ELSE {x}
    ELSE {x}

\* VoltaError::downcast_mut, and a store through the reference it returns
downcast_mut_store(self, value) == [self EXCEPT !.error = value]

(***************************************************************************)
(* shim.rs.  The shim directory maps each shim name to the kind of entry   *)
(* at its path.  The environment of a call is what the file system and the *)
(* path module answer: a failure of the path resolution, a fault of the    *)
(* file-system call.                                                       *)
(***************************************************************************)
ShimNames == {"node", "yarn", "npm", "npx", "tsc"}

EntryKinds == {"absent", "launcher", "otherlink", "file", "dir"}

Ok(v) == [ok |-> TRUE, val |-> v]

Err(e) == [ok |-> FALSE, err |-> e]

\* the fault a file-system call may meet whatever the entry at the path
IoFaults == { IoError("PermissionDenied", None, <<"Permission denied (os error 13)">>) }

\* the error path::launchbin_file or path::shim_file may return
PathError == VoltaErrorFrom(ErrorDetails("ConfigurationError", <<"no home directory">>))

Envs ==
    {[path |-> None, fault |-> None], [path |-> Some(PathError), fault |-> None]}
      \cup {[path |-> None, fault |-> Some(e)] : e \in IoFaults}

\* fn is_3p_shim: every name is third-party
is_3p_shim_always(name) == TRUE

\* fn is_3p_shim
is_3p_shim(name) ==
    IF name \in {"node", "yarn", "npm", "npx"} THEN FALSE ELSE TRUE

\* path::create_file_symlink(launchbin, shim): a link to the launcher at the shim path
create_file_symlink(dir, shim, fault) ==
    IF fault # None THEN [ok |-> FALSE, err |-> Unwrap(fault), dir |-> dir]
    ELSE IF dir[shim] # "absent"
    THEN [ok |-> FALSE,
          err |-> IoError("AlreadyExists", None, <<"File exists (os error 17)">>),
          dir |-> dir]
    ELSE [ok |-> TRUE, dir |-> [dir EXCEPT ![shim] = "launcher"]]

\* fs::remove_file(shim)
remove_file(dir, shim, fault) ==
    IF fault # None THEN [ok |-> FALSE, err |-> Unwrap(fault), dir |-> dir]
    ELSE IF dir[shim] = "absent"
    THEN [ok |-> FALSE,
          err |-> IoError("NotFound", None, <<"No such file or directory (os error 2)">>),
          dir |-> dir]
    ELSE IF dir[shim] = "dir"
    THEN [ok |-> FALSE,
          err |-> IoError("Other", None, <<"Is a directory (os error 21)">>),
          dir |-> dir]
    ELSE [ok |-> TRUE, dir |-> [dir EXCEPT ![shim] = "absent"]]

\* create, lines 37-38: the two path resolutions; Some(result) when one fails
create_paths(shim_name, path) ==
    IF path # None THEN Some(Err(Unwrap(path))) ELSE None

\* a faulty match: an existing entry is replaced by a launcher link
create_link_replacing(shim_name, dir, fault) ==
    IF fault # None
    THEN [res |-> Err(with_context(Unwrap(fault), "from_io_error")), dir |-> dir]
    ELSE [res |-> Ok("Created"), dir |-> [dir EXCEPT ![shim_name] = "launcher"]]

\* a faulty match: already-exists is an error like any other
create_link_strict(shim_name, dir, fault) ==
    LET r == create_file_symlink(dir, shim_name, fault) IN
    IF r.ok THEN [res |-> Ok("Created"), dir |-> r.dir]
    ELSE [res |-> Err(with_context(r.err, "from_io_error")), dir |-> r.dir]

\* create, lines 39-48: the symlink call and the match on its result
create_link(shim_name, dir, fault) ==
    LET r == create_file_symlink(dir, shim_name, fault) IN
    IF r.ok THEN [res |-> Ok("Created"), dir |-> r.dir]
    ELSE IF r.err.kind = "AlreadyExists" THEN [res |-> Ok("AlreadyExists"), dir |-> r.dir]
    ELSE [res |-> Err(with_context(r.err, "from_io_error")), dir |-> r.dir]

\* pub fn create
create(shim_name, dir, env) ==
    IF create_paths(shim_name, env.path) # None
    THEN [res |-> Unwrap(create_paths(shim_name, env.path)), dir |-> dir]
    ELSE create_link(shim_name, dir, env.fault)

\* delete, lines 52-57: the built-in check and the path resolution;
\* Some(result) when the call ends there
delete_paths(shim_name, path) ==
    IF ~is_3p_shim(shim_name)
    THEN Some(Err(VoltaErrorFrom(ErrorDetails("SymlinkError",
             <<"cannot delete ", shim_name, ", not a 3rd-party executable">>))))
    ELSE IF path # None THEN Some(Err(Unwrap(path)))
    ELSE None

\* a faulty match: Deleted whatever remove_file answered
delete_file_blind(shim_name, dir, fault) ==
    [res |-> Ok("Deleted"), dir |-> remove_file(dir, shim_name, fault).dir]

\* delete, lines 58-67: the removal and the match on its result
delete_file(shim_name, dir, fault) ==
    LET r == remove_file(dir, shim_name, fault) IN
    IF r.ok THEN [res |-> Ok("Deleted"), dir |-> r.dir]
    ELSE IF r.err.kind = "NotFound" THEN [res |-> Ok("DoesntExist"), dir |-> r.dir]
    ELSE [res |-> Err(with_context(r.err, "from_io_error")), dir |-> r.dir]

\* pub fn delete
delete(shim_name, dir, env) ==
    IF delete_paths(shim_name, env.path) # None
    THEN [res |-> Unwrap(delete_paths(shim_name, env.path)), dir |-> dir]
    ELSE delete_file(shim_name, dir, env.fault)

(***************************************************************************)
(* The version strings a serialized catalog is drawn from.  ValidPool is   *)
(* written in ascending semantic-version precedence.                       *)
(***************************************************************************)
ValidPool ==
    << <<"0", ".", "1", ".", "0">>,
       <<"1", ".", "0", ".", "0", "-", "2">>,
       <<"1", ".", "0", ".", "0", "-", "1", "0">>,
       <<"1", ".", "0", ".", "0", "-", "a">>,
       <<"1", ".", "0", ".", "0">>,
       <<"2", ".", "0", ".", "0">>,
       <<"1", "0", ".", "0", ".", "0">> >>

MalformedPool ==
    { <<"1", ".", "0">>,
      <<"0", "1", ".", "0", ".", "0">>,
      <<"1", ".", "0", ".", "a">>,
      <<"1", ".", "0", ".", "0", "-">> }

ValidStrings == {ValidPool[i] : i \in 1..Len(ValidPool)}

Pool == ValidStrings \cup MalformedPool

Rank(s) == CHOOSE i \in 1..Len(ValidPool) : ValidPool[i] = s

SeqsUpTo(S, n) == UNION {[1..k -> S] : k \in 0..n}

SerialCatalogs ==
    [current : {None} \cup {Some(s) : s \in Pool}, versions : SeqsUpTo(Pool, MaxVersions)]

(***************************************************************************)
(* The state of each part before anything runs.                            *)
(***************************************************************************)
EmptyDir == [n \in ShimNames |-> "absent"]

CatalogIdle ==
    /\ input = NodeCatalogDefault
    /\ serial = NodeCatalogDefault
    /\ catalog = None
    /\ prev = None
    /\ cpc = "serial"

ShimIdle ==
    /\ fs = EmptyDir
    /\ fs0 = None
    /\ last = None
    /\ before = None
    /\ pc = <<>>
    /\ applied = None
    /\ clean = TRUE

FailIdle ==
    /\ result = Ok("value")
    /\ arg = None
    /\ ctx = None
    /\ fop = "init"

(***************************************************************************)
(* The catalog: a serialized catalog is parsed, written back, parsed ...   *)
(***************************************************************************)
InitCatalog ==
    /\ input \in SerialCatalogs
    /\ serial = input
    /\ catalog = None
    /\ prev = None
    /\ cpc = "serial"
    /\ ShimIdle
    /\ FailIdle

\* Catalog::into_catalog on the serialized catalog at hand
IntoCatalog ==
    /\ cpc = "serial"
    /\ catalog' = Some(into_catalog(serial))
    /\ prev' = catalog
    /\ cpc' = IF into_catalog(serial).ok THEN "memory" ELSE "failed"
    /\ UNCHANGED <<input, serial, shimVars, failVars>>

\* catalog::Catalog::to_serial on the catalog in memory
ToSerial ==
    /\ cpc = "memory"
    /\ serial' = to_serial(Unwrap(catalog).val)
    /\ cpc' = "serial"
    /\ UNCHANGED <<input, catalog, prev, shimVars, failVars>>

NextCatalog == IntoCatalog \/ ToSerial

SpecCatalog == InitCatalog /\ [][NextCatalog]_vars

(***************************************************************************)
(* Shims, one call after another.                                          *)
(***************************************************************************)
Dirs == [ShimNames -> EntryKinds]

InitShim ==
    /\ fs \in Dirs
    /\ Cardinality({n \in ShimNames : fs[n] # "absent"}) <= MaxPreexisting
    /\ fs0 = None
    /\ last = None
    /\ before = None
    /\ pc = <<>>
    /\ applied = None
    /\ clean = TRUE
    /\ CatalogIdle
    /\ FailIdle

Called(op, name, env, out) ==
    /\ fs' = out.dir
    /\ last' = Some([op |-> op, name |-> name, env |-> env, res |-> out.res, dir |-> fs])
    /\ before' = IF last = None THEN None
                 ELSE IF Unwrap(last).name # name THEN None
                 ELSE Some([op |-> Unwrap(last).op, env |-> Unwrap(last).env,
                            res |-> Unwrap(last).res,
                            pre |-> Unwrap(last).dir[name]])
    /\ UNCHANGED <<fs0, pc, applied, clean, catalogVars, failVars>>

\* a call of shim::create
Create(name, env) == Called("create", name, env, create(name, fs, env))

\* a call of shim::delete
Delete(name, env) == Called("delete", name, env, delete(name, fs, env))

NextShim ==
    \E name \in ShimNames, env \in Envs : Create(name, env) \/ Delete(name, env)

SpecShim == InitShim /\ [][NextShim]_vars

(***************************************************************************)
(* Shims, several invocations at once on one third-party name.  A call is  *)
(* the path resolution, then the one file-system call, then the return.    *)
(***************************************************************************)
Procs == 1..NumProcs

RaceName == "tsc"

Idle == [at |-> "idle"]

InitRace ==
    /\ \E k \in EntryKinds :
          /\ fs = [EmptyDir EXCEPT ![RaceName] = k]
          /\ fs0 = Some(k)
    /\ last = None
    /\ before = None
    /\ pc = [p \in Procs |-> Idle]
    /\ applied = None
    /\ clean = TRUE
    /\ CatalogIdle
    /\ FailIdle

\* p enters create: lines 37-38
BeginCreate(p, path) ==
    /\ pc[p] = Idle
    /\ LET r == create_paths(RaceName, path) IN
       pc' = [pc EXCEPT ![p] =
                 IF r # None THEN [at |-> "done", op |-> "create", res |-> Unwrap(r)]
                 ELSE [at |-> "fs", op |-> "create"]]
    /\ clean' = (clean /\ path = None)
    /\ UNCHANGED <<fs, fs0, last, before, applied, catalogVars, failVars>>

\* p enters delete: lines 52-57
BeginDelete(p, path) ==
    /\ pc[p] = Idle
    /\ LET r == delete_paths(RaceName, path) IN
       pc' = [pc EXCEPT ![p] =
                 IF r # None THEN [at |-> "done", op |-> "delete", res |-> Unwrap(r)]
                 ELSE [at |-> "fs", op |-> "delete"]]
    /\ clean' = (clean /\ path = None)
    /\ UNCHANGED <<fs, fs0, last, before, applied, catalogVars, failVars>>

\* p's file-system call, atomic, and the match on its result
FsCall(p, fault) ==
    /\ pc[p].at = "fs"
    /\ LET out == IF pc[p].op = "create" THEN create_link(RaceName, fs, fault)
                  ELSE delete_file(RaceName, fs, fault)
       IN  /\ fs' = out.dir
           /\ pc' = [pc EXCEPT ![p] = [at |-> "done", op |-> pc[p].op, res |-> out.res]]
    /\ applied' = IF fault = None THEN Some(pc[p].op) ELSE applied
    /\ clean' = (clean /\ fault = None)
    /\ UNCHANGED <<fs0, last, before, catalogVars, failVars>>

\* p's call returns to its caller
Return(p) ==
    /\ pc[p].at = "done"
    /\ pc' = [pc EXCEPT ![p] = Idle]
    /\ UNCHANGED <<fs, fs0, last, before, applied, clean, catalogVars, failVars>>

NextRace ==
    \E p \in Procs :
        \/ \E path \in {None, Some(PathError)} : BeginCreate(p, path) \/ BeginDelete(p, path)
        \/ \E fault \in {None} \cup {Some(e) : e \in IoFaults} : FsCall(p, fault)
        \/ Return(p)

SpecRace == InitRace /\ [][NextRace]_vars

(***************************************************************************)
(* Errors: a Result is handed up, wrapped with context on the way, and the *)
(* failure under a VoltaError may be written through downcast_mut.         *)
(***************************************************************************)
LowerErrors ==
    IoFaults \cup {ParseIntError,
                   IoError("NotFound", None, <<"No such file or directory (os error 2)">>),
                   IoError("Other", Some(<<"symlinks are not supported">>), <<>>)}

DomainErrors ==
    { ErrorDetails("SymlinkError", <<"cannot link">>),
      ErrorDetails("VersionParseError", <<"1.0">>),
      UnexpectedEndOfString }

\* the closures a with_context on an error of this type may be given
ContextFns(e) ==
    {"InvalidRgbString::new", "UnexpectedEndOfString"}
      \cup (IF e.type = "io::Error" THEN {"from_io_error"} ELSE {})

\* the number of contexts stacked on an error
RECURSIVE Depth(_)
Depth(x) ==
    IF x.type = "VoltaError" THEN Depth(x.error)
    ELSE IF x.type = "Context"
    THEN 1 + (IF x.failure = None THEN 0 ELSE Depth(Unwrap(x.failure)))
    ELSE 0

InitFail ==
    /\ result \in {Ok("value")} \cup {Err(e) : e \in LowerErrors}
    /\ arg = None
    /\ ctx = None
    /\ fop = "init"
    /\ CatalogIdle
    /\ ShimIdle

\* throw!(d): a domain error becomes a VoltaError through From
Throw(d) ==
    /\ result.ok
    /\ result' = Err(VoltaErrorFrom(d))
    /\ fop' = "from"
    /\ UNCHANGED <<arg, ctx, catalogVars, shimVars>>

\* result.with_context(f)
WithContext(f) ==
    /\ IF result.ok THEN TRUE
       ELSE Depth(result.err) < MaxContext /\ f \in ContextFns(result.err)
    /\ result' = result_with_context(result, f)
    /\ arg' = Some(result)
    /\ ctx' = Some(f)
    /\ fop' = "with_context"
    /\ UNCHANGED <<catalogVars, shimVars>>

\* *err.downcast_mut::<T>().unwrap() = value
DowncastMut(value) ==
    /\ ~result.ok
    /\ result.err.type = "VoltaError"
    /\ value \in SameTypeValues(result.err.error)
    /\ value # result.err.error
    /\ result' = Err(downcast_mut_store(result.err, value))
    /\ fop' = "downcast_mut"
    /\ UNCHANGED <<arg, ctx, catalogVars, shimVars>>

AllValues ==
    UNION {SameTypeValues(d) : d \in DomainErrors}
      \cup {Context(ErrorDetails(v, m), f) :
               v \in {"SymlinkError", "VersionParseError"},
               m \in {Display(e) : e \in LowerErrors},
               f \in {Some(e) : e \in LowerErrors}}

NextFail ==
    \/ \E d \in DomainErrors : Throw(d)
    \/ \E f \in {"from_io_error", "InvalidRgbString::new", "UnexpectedEndOfString"} :
          WithContext(f)
    \/ \E value \in AllValues : DowncastMut(value)

SpecFail == InitFail /\ [][NextFail]_vars

(***************************************************************************)
(* Properties of the catalog conversion.                                   *)
(***************************************************************************)
Range(s) == {s[i] : i \in 1..Len(s)}

AnyMalformed(sc) ==
    \/ sc.current # None /\ Unwrap(sc.current) \in MalformedPool
    \/ \E i \in 1..Len(sc.versions) : sc.versions[i] \in MalformedPool

Parsed == cpc \in {"memory", "failed"}

\* C1: parsing a serialized catalog is all-or-nothing: if any entry of
\* `versions`, or a present `current`, is malformed, into_catalog returns the
\* version-parse error and nothing else; it returns a catalog only when every
\* string parses.
C1_AllOrNothing ==
    Parsed =>
        /\ AnyMalformed(serial) => Unwrap(catalog) = SemVerError /\ cpc = "failed"
        /\ ~AnyMalformed(serial) =>
              /\ Unwrap(catalog).ok
              /\ DOMAIN Unwrap(catalog) = {"ok", "val"}
              /\ cpc = "memory"

C1_Witness ==
    /\ cpc = "failed"
    /\ Len(serial.versions) = 2
    /\ serial.versions[1] \in ValidStrings
    /\ serial.versions[2] \in MalformedPool
    /\ serial.current # None
    /\ Unwrap(serial.current) \in ValidStrings

Serialized == cpc = "serial" /\ catalog # None

\* C2: for a list of valid version strings, in any order and with
\* duplicates, into_catalog then to_serial gives a `versions` list holding each
\* distinct input version exactly once, no other version, in ascending
\* semantic-version precedence.
C2_SortedDistinct ==
    Serialized =>
        /\ \A s \in Range(input.versions) :
              Cardinality({i \in 1..Len(serial.versions) : serial.versions[i] = s}) = 1
        /\ \A i \in 1..Len(serial.versions) : serial.versions[i] \in Range(input.versions)
        /\ \A i, j \in 1..Len(serial.versions) :
              i < j => Rank(serial.versions[i]) < Rank(serial.versions[j])

C2_Witness ==
    /\ Serialized
    /\ Len(input.versions) = 3
    /\ Len(serial.versions) = 2
    /\ Rank(input.versions[1]) > Rank(input.versions[2])
    /\ input.versions[3] = input.versions[1]
    /\ serial.versions # SubSeq(input.versions, 1, 2)

\* C3: round trip: when a serialized catalog x parses, parsing the
\* serialization of parse(x) succeeds and gives the same catalog (same
\* `current`, same versions), although the serialization may differ from x.
C3_RoundTrip ==
    prev # None => /\ Unwrap(catalog).ok
                   /\ Unwrap(catalog).val.current = Unwrap(prev).val.current
                   /\ Unwrap(catalog).val.versions = Unwrap(prev).val.versions

C3_Witness ==
    /\ prev # None
    /\ cpc = "memory"
    /\ serial # input
    /\ Unwrap(catalog).val.current # None
    /\ Len(Unwrap(catalog).val.versions) = 2

(***************************************************************************)
(* Properties of the shim calls made one after another.                    *)
(***************************************************************************)
L == Unwrap(last)

B == Unwrap(before)

CleanEnv == [path |-> None, fault |-> None]

Reserved == {"node", "yarn", "npm", "npx"}

\* the domain error a VoltaError was made from
Details(ve) == IF ve.error.type = "Context" THEN ve.error.context ELSE ve.error

IsSymlinkError(res) ==
    /\ ~res.ok
    /\ res.err.type = "VoltaError"
    /\ Details(res.err).type = "ErrorDetails"
    /\ Details(res.err).variant = "SymlinkError"

LastIs(op) == last # None /\ L.op = op

BeforeIs(op) == before # None /\ B.op = op

\* C4: from a shim path that does not exist, and with the path resolution
\* and the symlink call not failing otherwise, two successive create(name)
\* return Created and then AlreadyExists, and the entry is then a link to the
\* launcher.
C4_CreateTwice ==
    /\ (LastIs("create") /\ L.env = CleanEnv /\ L.dir[L.name] = "absent") =>
          /\ L.res = Ok("Created")
          /\ fs[L.name] = "launcher"
    /\ (LastIs("create") /\ L.env = CleanEnv /\ BeforeIs("create")
          /\ B.env = CleanEnv /\ B.pre = "absent") =>
          /\ B.res = Ok("Created")
          /\ L.res = Ok("AlreadyExists")
          /\ fs[L.name] = "launcher"

C4_Witness ==
    /\ LastIs("create") /\ BeforeIs("create")
    /\ B.pre = "absent" /\ B.res = Ok("Created")
    /\ L.res = Ok("AlreadyExists")
    /\ fs[L.name] = "launcher"

ThirdPartyDelete == LastIs("delete") /\ L.name \notin Reserved

\* C5 as stated: over any calls on a third-party name, delete returns Deleted
\* exactly when an entry existed before the call and DoesntExist exactly when
\* none did (the calls' path resolution and file-system access being granted).
C5_AsStated ==
    (ThirdPartyDelete /\ L.env = CleanEnv) =>
        /\ L.res = Ok("Deleted") <=> L.dir[L.name] # "absent"
        /\ L.res = Ok("DoesntExist") <=> L.dir[L.name] = "absent"

\* C5 amended: for a third-party name, delete returns Deleted only when an
\* entry existed and DoesntExist only when none did; when the call meets no
\* path failure and no file-system fault, it returns DoesntExist exactly when
\* no entry existed, Deleted (removing the entry) exactly when the entry was
\* a link or a file, and a SymlinkError when the entry is a directory; so a
\* delete right after a create that returned Created returns Deleted, and a
\* further delete DoesntExist.
C5_DeleteOutcome ==
    /\ ThirdPartyDelete =>
          /\ L.res = Ok("Deleted") => L.dir[L.name] # "absent" /\ fs[L.name] = "absent"
          /\ L.res = Ok("DoesntExist") => L.dir[L.name] = "absent"
    /\ (ThirdPartyDelete /\ L.env = CleanEnv) =>
          /\ L.res = Ok("Deleted") <=> L.dir[L.name] \notin {"absent", "dir"}
          /\ L.res = Ok("DoesntExist") <=> L.dir[L.name] = "absent"
          /\ L.dir[L.name] = "dir" => IsSymlinkError(L.res) /\ fs = L.dir
    /\ (ThirdPartyDelete /\ L.env = CleanEnv /\ BeforeIs("create")
          /\ B.res = Ok("Created")) =>
          L.res = Ok("Deleted") /\ fs[L.name] = "absent"
    /\ (ThirdPartyDelete /\ L.env = CleanEnv /\ BeforeIs("delete")
          /\ B.res = Ok("Deleted")) =>
          L.res = Ok("DoesntExist")

C5_Witness ==
    /\ ThirdPartyDelete /\ L.env = CleanEnv /\ BeforeIs("delete")
    /\ B.pre = "launcher" /\ B.res = Ok("Deleted")
    /\ L.res = Ok("DoesntExist")

OtherNames == {"tsc", "Node", "nodejs", "np", ""}

\* C6: delete of a reserved name (node, yarn, npm, npx) fails with a
\* SymlinkError in every state of the shim directory and whatever the
\* environment, and leaves the directory unchanged; the built-in check
\* rejects no other name.
C6_BuiltinDelete ==
    /\ (LastIs("delete") /\ L.name \in Reserved) =>
          /\ IsSymlinkError(L.res)
          /\ Details(L.res.err).error =
                <<"cannot delete ", L.name, ", not a 3rd-party executable">>
          /\ fs = L.dir
    /\ (ThirdPartyDelete /\ L.env = CleanEnv /\ L.dir[L.name] # "dir") => L.res.ok
    /\ \A n \in OtherNames : delete_paths(n, None) = None

C6_Witness ==
    /\ LastIs("delete")
    /\ L.name = "npx"
    /\ L.dir["npx"] = "launcher"
    /\ L.env = CleanEnv
    /\ IsSymlinkError(L.res)
    /\ fs["npx"] = "launcher"

\* C10: create never replaces or changes an entry already at the shim
\* path, for built-in names as for third-party ones: the directory is left as
\* it was, and the call returns AlreadyExists when the symlink call fails
\* because the entry exists; a symlink failure of another kind is returned as
\* a SymlinkError, never as a success.
C10_CreateKeepsEntry ==
    /\ (LastIs("create") /\ L.dir[L.name] # "absent") => fs = L.dir
    /\ (LastIs("create") /\ L.dir[L.name] # "absent" /\ L.env = CleanEnv) =>
          L.res = Ok("AlreadyExists")
    /\ (LastIs("create") /\ L.env.fault # None) =>
          /\ IsSymlinkError(L.res)
          /\ Details(L.res.err).error = Display(Unwrap(L.env.fault))
          /\ fs = L.dir
    /\ LastIs("create") =>
          \A n \in ShimNames \ {L.name} : fs[n] = L.dir[n]

C10_Witness ==
    /\ LastIs("create")
    /\ L.name = "node"
    /\ L.dir["node"] = "file"
    /\ L.res = Ok("AlreadyExists")
    /\ fs["node"] = "file"

(***************************************************************************)
(* Properties of the shim calls made concurrently.                         *)
(***************************************************************************)
Quiescent == \A p \in Procs : pc[p].at # "fs"

Racing == pc # <<>> /\ clean

Converged ==
    /\ \A p \in Procs : pc[p].at = "done" => pc[p].res.ok
    /\ (applied # None /\ Quiescent) =>
          /\ fs[RaceName] \in {"absent", "launcher"}
          /\ Unwrap(applied) = "create" => fs[RaceName] = "launcher"
          /\ Unwrap(applied) = "delete" => fs[RaceName] = "absent"

\* C8 as stated: with every file-system call atomic and otherwise succeeding,
\* concurrent create and delete calls on one third-party name all return a
\* non-error outcome, and the path ends absent or a link to the launcher,
\* present after a create applied last, absent after a delete applied last.
C8_AsStated == Racing => Converged

\* C8 amended: the same, for a shim path that is absent or a link to the
\* launcher when the calls start.
C8_Converges ==
    (Racing /\ Unwrap(fs0) \in {"absent", "launcher"}) => Converged

C8_Witness ==
    /\ Racing
    /\ fs0 = Some("absent")
    /\ pc[1] = [at |-> "done", op |-> "create", res |-> Ok("AlreadyExists")]
    /\ pc[2] = [at |-> "done", op |-> "create", res |-> Ok("Created")]
    /\ applied = Some("create")
    /\ fs[RaceName] = "launcher"

(***************************************************************************)
(* Properties of the errors.                                               *)
(***************************************************************************)
Wrapped == fop = "with_context" /\ ~Unwrap(arg).ok

C9_StoredExitCode ==
    (~result.ok /\ result.err.type = "VoltaError") =>
        exit_code(result.err) = VoltaFail_exit_code(result.err.error)

====
